---- MODULE Spec2Model ----
(***************************************************************************)
(* Data-refresh and query-execution layer of the club dashboard            *)
(* (src/UTILIDADE.PY): get_db_connection, run_query, load_all_data,        *)
(* refresh_data and the orders page that drives them.                      *)
(*                                                                         *)
(* One action is one Streamlit script run (a page render together with     *)
(* the widget interaction that triggered it) or one step of the            *)
(* environment (the database server, other clients of the database).       *)
(***************************************************************************)
EXTENDS Integers, Sequences, FiniteSets, TLC

(***************************************************************************)
(* Bounds of the model.                                                    *)
(***************************************************************************)
\* Largest number of rows public.tb_pedido holds in the model.
MaxOrders == 2
\* Clock ticks per second.  datetime.now() has sub-second resolution, the
\* edit key is formatted with '%Y-%m-%d %H:%M:%S' (whole seconds).
TicksPerSecond == 2

Sessions == {1, 2}
\* Clock ticks of a timestamp.
Ticks == {0, 1, 2}
\* Largest balance of loyalty points explored.
MaxPoints == 150
\* "Pontos a adicionar": st.number_input(min_value=0, step=1).
PointsEarned == {0, 1, 50}

\* Quantities a form submits.  st.number_input(min_value=1) bounds the
\* widget; 0 stands for a value under that bound, which the check at line
\* 434 is there to reject.
Quantities == {0, 2}

\* Contents of the look-up tables the layer only reads.
TbClientes == << "Ana" >>
TbProducts == << [supplier |-> "Acme", product |-> "Water"] >>
TbEstoque == << [product |-> "Water", quantity |-> 5] >>

ClientInputs == {"", "Ana"}
ProductInputs == {"", "Water"}
Usernames == {"admin", "ana"}
\* st.session_state holds no 'username' entry.
NoUser == "<absent>"

\* Fault the database injects into the one statement an action executes on
\* an open connection: none, a statement error (the connection survives,
\* rollback works), or a lost connection (rollback raises as well).
Faults == {"ok", "stmt", "lost"}

VARIABLES
    dbUp,        \* the database server accepts connections
    tb_pedido,   \* rows of public.tb_pedido, in insertion order
    connCache,   \* st.cache_resource entry of get_db_connection
    dataCache,   \* st.cache_data entry of load_all_data
    session,     \* st.session_state of each browser session
    last         \* what the most recent script run or call did and showed

vars == << dbUp, tb_pedido, connCache, dataCache, session, last >>

(***************************************************************************)
(* Snapshots: the dictionary load_all_data returns.                        *)
(***************************************************************************)
DatasetKeys == {"orders", "products", "clients", "stock"}

\* data = {}
EmptyDict == [present |-> {}, rows |-> [k \in DatasetKeys |-> << >>]]

\* data[k] = rows
DictSet(d, k, rows) ==
    [present |-> d.present \cup {k}, rows |-> [d.rows EXCEPT ![k] = rows]]

\* data.get(k, [])
DictGet(d, k) ==
    IF k \in d.present THEN d.rows[k] ELSE << >>


(***************************************************************************)
(* The SQL statements of the layer, by what they do to public.tb_pedido    *)
(* and the look-up tables.  An order row is                                *)
(* [client, product, quantity, date, status].                              *)
(***************************************************************************)
OpenStatus == "em aberto"

\* A statement and the values passed beside it.
Stmt(sql, values) == [sql |-> sql, values |-> values]

LoadQueries == << "orders_query", "products_query", "clients_query", "stock_query" >>
LoadKeys == << "orders", "products", "clients", "stock" >>

RECURSIVE InsertByDataDesc(_, _)
\* `row` placed behind every row whose "Data" is not older.
InsertByDataDesc(row, sorted) ==
    IF sorted = << >> THEN << row >>
    ELSE IF Head(sorted).date >= row.date
         THEN << Head(sorted) >> \o InsertByDataDesc(row, Tail(sorted))
         ELSE << row >> \o sorted

RECURSIVE OrderByDataDesc(_)
\* ORDER BY "Data" DESC; rows of equal "Data" keep their table order.
OrderByDataDesc(rows) ==
    IF rows = << >> THEN << >>
    ELSE InsertByDataDesc(rows[Len(rows)],
                          OrderByDataDesc(SubSeq(rows, 1, Len(rows) - 1)))

\* SELECT DISTINCT "Cliente" FROM public.tb_pedido ORDER BY "Cliente"
DistinctClients(tb) ==
    SelectSeq(TbClientes, LAMBDA c : \E i \in 1 .. Len(tb) : tb[i].client = c)

\* SELECT COUNT(DISTINCT "Cliente") FROM public.tb_pedido WHERE status = %s
ClientCount(status, tb) ==
    Cardinality({tb[i].client : i \in {j \in 1 .. Len(tb) : tb[j].status = status}})

\* SELECT "Cliente", SUM("total") FROM public.vw_pedido_produto
\* WHERE status = %s GROUP BY "Cliente": one row per client with an order in
\* that status (the totals, which depend on prices, are left out).
OpenOrdersData(status, tb) ==
    SelectSeq(TbClientes,
              LAMBDA c : \E i \in 1 .. Len(tb) : tb[i].client = c /\ tb[i].status = status)

\* Rows a SELECT returns.
SelectRows(stmt, tb) ==
    CASE stmt.sql = "orders_query" -> OrderByDataDesc(tb)
      [] stmt.sql = "products_query" -> TbProducts
      [] stmt.sql = "clients_query" -> DistinctClients(tb)
      [] stmt.sql = "stock_query" -> TbEstoque
      [] stmt.sql = "clientes_query" -> TbClientes
      [] stmt.sql = "client_count_query" -> << ClientCount(stmt.values[1], tb) >>
      [] stmt.sql = "open_orders_query" -> OpenOrdersData(stmt.values[1], tb)
      [] OTHER -> << >>

\* INSERT INTO public.tb_pedido (...) VALUES (%s, %s, %s, %s, 'em aberto')
InsertOrder(values, tb) ==
    Append(tb, [client |-> values[1], product |-> values[2],
                quantity |-> values[3], date |-> values[4],
                status |-> OpenStatus])

\* UPDATE public.tb_pedido SET "Produto", "Quantidade", status
\* WHERE "Cliente" = %s AND "Produto" = %s AND "Data" = %s
UpdateOrder(values, tb) ==
    [i \in 1 .. Len(tb) |->
        IF tb[i].client = values[4] /\ tb[i].product = values[5] /\ tb[i].date = values[6]
        THEN [tb[i] EXCEPT !.product = values[1], !.quantity = values[2],
                           !.status = values[3]]
        ELSE tb[i]]

\* DELETE FROM public.tb_pedido
\* WHERE "Cliente" = %s AND "Produto" = %s AND "Data" = %s
DeleteOrder(values, tb) ==
    SelectSeq(tb, LAMBDA row : ~(row.client = values[1] /\ row.product = values[2]
                                 /\ row.date = values[3]))

\* Table a committed statement leaves.
ApplyStmt(stmt, tb) ==
    CASE stmt.sql = "insert_order" -> InsertOrder(stmt.values, tb)
      [] stmt.sql = "update_order" -> UpdateOrder(stmt.values, tb)
      [] stmt.sql = "delete_order" -> DeleteOrder(stmt.values, tb)
      [] OTHER -> tb

(***************************************************************************)
(* get_db_connection and run_query.                                        *)
(*                                                                         *)
(* A connection is "open" or "closed"; "none" is the None that             *)
(* get_db_connection returns when the server cannot be reached; "unset"    *)
(* is an empty st.cache_resource entry.                                    *)
(***************************************************************************)
\* @st.cache_resource: the first call connects and stores what it returns,
\* a connection or None; every later call returns the stored value.
GetDbConnection(cached, up) ==
    IF cached = "unset" THEN (IF up THEN "open" ELSE "none") ELSE cached

\* conn.close() as the last statement of the try block instead of a finally
\* clause: an exception that leaves run_query skips it.
ConnAfterCall_NoFinally(conn, outcome) ==
    IF outcome = "raise" THEN conn ELSE "closed"

\* finally: conn.close()
ConnAfterCall(conn, outcome) ==
    "closed"

\* How the try block ends on connection `conn`: cursor() and rollback()
\* both raise on a closed connection, so the exception leaves run_query;
\* a statement error is rolled back and reported; a lost connection makes
\* the rollback raise too.
QueryOutcome(conn, commit, fault) ==
    IF conn # "open" THEN "raise"
    ELSE IF fault = "stmt" THEN "none"
    ELSE IF fault = "lost" THEN "raise"
    ELSE IF commit THEN "true"
    ELSE "rows"

\* The world a script run works in: the cached connection, the orders
\* table, the st.cache_data entry, and what the run logged and displayed.
World(conn, tb, memo) ==
    [conn |-> conn, tb |-> tb, memo |-> memo, calls |-> << >>, msgs |-> {}]

Show(w, msg) == [w EXCEPT !.msgs = @ \cup {msg}]

\* run_query(query, values, commit): the world after the call and what the
\* call returned ("rows", "true", "none") or that it raised ("raise").
RunQuery(w, stmt, commit, up, fault) ==
    LET conn == GetDbConnection(w.conn, up)
    IN  IF conn = "none"
        THEN [w |-> [w EXCEPT !.conn = "none",
                              !.calls = Append(@, [sql |-> stmt.sql, values |-> stmt.values,
                                                   conn |-> "none",
                                                   fresh |-> FALSE, closed |-> FALSE,
                                                   outcome |-> "none"]),
                              !.msgs = IF w.conn = "unset"
                                       THEN @ \cup {"Nao foi possivel conectar ao banco de dados."}
                                       ELSE @],
              kind |-> "none", rows |-> << >>]
        ELSE LET outcome == QueryOutcome(conn, commit, fault)
                 after == ConnAfterCall(conn, outcome)
                 call == [sql |-> stmt.sql, values |-> stmt.values, conn |-> conn,
                          fresh |-> (w.conn = "unset"),
                          closed |-> (after = "closed"),
                          outcome |-> outcome]
             IN  [w |-> [w EXCEPT
                           !.conn = after,
                           !.tb = IF outcome = "true" THEN ApplyStmt(stmt, @) ELSE @,
                           !.calls = Append(@, call),
                           !.msgs = IF outcome = "none"
                                    THEN @ \cup {"Erro ao executar a consulta"}
                                    ELSE @],
                  kind |-> outcome,
                  rows |-> IF outcome = "rows" THEN SelectRows(stmt, w.tb) ELSE << >>]

\* Python truth of what run_query returned: True, or a non-empty list.
Truthy(r) ==
    r.kind = "true" \/ (r.kind = "rows" /\ r.rows # << >>)

\* run_query(...) or []
OrEmpty(r) ==
    IF Truthy(r) THEN r.rows ELSE << >>

(***************************************************************************)
(* load_all_data and refresh_data.                                         *)
(***************************************************************************)
RECURSIVE LoadFrom(_, _, _, _, _)
\* The body of load_all_data from its i-th query on: each result is stored
\* under its key; an exception leaves the try block, is reported, and the
\* dictionary is returned as far as it was filled.
LoadFrom(i, w, data, up, fault) ==
    IF i > Len(LoadQueries) THEN [w |-> w, data |-> data]
    ELSE LET r == RunQuery(w, Stmt(LoadQueries[i], << >>), FALSE, up, fault)
         IN  IF r.kind = "raise"
             THEN [w |-> Show(r.w, "Erro ao carregar os dados"), data |-> data]
             ELSE LoadFrom(i + 1, r.w, DictSet(data, LoadKeys[i], OrEmpty(r)), up, fault)

\* load_all_data without @st.cache_data: the four queries on every call.
LoadAllData_NoMemo(w, up, fault) ==
    LET r == LoadFrom(1, w, EmptyDict, up, fault)
    IN  [w |-> [r.w EXCEPT !.memo = [set |-> TRUE, val |-> r.data]],
         data |-> r.data]

\* @st.cache_data load_all_data(): the stored dictionary when there is one,
\* else the four queries, whose result is stored.
LoadAllData(w, up, fault) ==
    IF w.memo.set THEN [w |-> w, data |-> w.memo.val]
    ELSE LET r == LoadFrom(1, w, EmptyDict, up, fault)
         IN  [w |-> [r.w EXCEPT !.memo = [set |-> TRUE, val |-> r.data]],
              data |-> r.data]

NoMemo == [set |-> FALSE, val |-> EmptyDict]

\* refresh_data(): load_all_data.clear(), then load_all_data(); the caller
\* stores the result in st.session_state.data.
RefreshData(w, up, fault) ==
    LoadAllData([w EXCEPT !.memo = NoMemo], up, fault)


(***************************************************************************)
(* orders_page.                                                            *)
(***************************************************************************)
NoChoice == ""
NoProducts == "No products available"

\* What st.selectbox returns: the option the user chose, the first option
\* (index=0) when the choice is not offered, None (here "") without options.
Selectbox(options, choice) ==
    IF options = << >> THEN NoChoice
    ELSE IF \E i \in 1 .. Len(options) : options[i] = choice THEN choice
    ELSE options[1]

\* product_list
ProductList(data) ==
    LET product_data == DictGet(data, "products")
    IN  IF product_data # << >>
        THEN << "" >> \o [i \in 1 .. Len(product_data) |-> product_data[i].product]
        ELSE << NoProducts >>

\* customer_list, from what the query for the clients returned
CustomerList(r) ==
    IF Truthy(r) THEN << "" >> \o r.rows ELSE << >>

\* if product and quantity > 0
ValidOrder_NoCustomer(customer_name, product, quantity) ==
    product # "" /\ quantity > 0

\* if customer_name and product and quantity > 0
ValidOrder(customer_name, product, quantity) ==
    customer_name # "" /\ product # "" /\ quantity > 0

\* What a run of the page leaves: the world, st.session_state.data, how
\* far the run got, and the values the form's widgets returned (none when
\* the run ended before the form).
PageResult(w, data, stage, form) ==
    [w |-> w, data |-> data, stage |-> stage, form |-> form]

\* if success: ... refresh_data()  else: st.error(...)
AfterInsert(r, data, form, up, fault) ==
    IF Truthy(r)
    THEN LET f == RefreshData(Show(r.w, "Order registrado com sucesso!"), up, fault)
         IN  PageResult(f.w, f.data, "created", form)
    ELSE PageResult(Show(r.w, "Falha ao registrar o pedido."), data, "failed", form)

\* orders_page with refresh_data() called before the INSERT is issued
\* instead of after its success.
OrdersSubmit_RefreshFirst(w, data, cIn, pIn, qIn, t, up, fault) ==
    LET clientes == RunQuery(w, Stmt("clientes_query", << >>), FALSE, up, fault)
        customer_name == Selectbox(CustomerList(clientes), cIn)
        product == Selectbox(ProductList(data), pIn)
        form == << customer_name, product, qIn >>
    IN  IF clientes.kind = "raise" THEN PageResult(clientes.w, data, "raised_form", << >>)
        ELSE IF ValidOrder(customer_name, product, qIn)
        THEN LET f == RefreshData(clientes.w, up, fault)
                 ins == RunQuery(f.w,
                                 Stmt("insert_order", << customer_name, product, qIn, t >>),
                                 TRUE, up, fault)
             IN  IF ins.kind = "raise" THEN PageResult(ins.w, f.data, "raised_stmt", form)
                 ELSE IF Truthy(ins)
                 THEN PageResult(Show(ins.w, "Order registrado com sucesso!"),
                                 f.data, "created", form)
                 ELSE PageResult(Show(ins.w, "Falha ao registrar o pedido."),
                                 f.data, "failed", form)
        ELSE PageResult(Show(clientes.w, "Por favor, preencha todos os campos corretamente."),
                        data, "warned", form)

\* The run of orders_page in which the order form is submitted with the
\* widget state (cIn, pIn, qIn) at time t.  An exception that leaves
\* run_query ends the run where it is raised.
OrdersSubmit(w, data, cIn, pIn, qIn, t, up, fault) ==
    LET clientes == RunQuery(w, Stmt("clientes_query", << >>), FALSE, up, fault)
        customer_name == Selectbox(CustomerList(clientes), cIn)
        product == Selectbox(ProductList(data), pIn)
        form == << customer_name, product, qIn >>
    IN  IF clientes.kind = "raise" THEN PageResult(clientes.w, data, "raised_form", << >>)
        ELSE IF ValidOrder(customer_name, product, qIn)
        THEN LET ins == RunQuery(clientes.w,
                                 Stmt("insert_order", << customer_name, product, qIn, t >>),
                                 TRUE, up, fault)
             IN  IF ins.kind = "raise" THEN PageResult(ins.w, data, "raised_stmt", form)
                 ELSE AfterInsert(ins, data, form, up, fault)
        ELSE PageResult(Show(clientes.w, "Por favor, preencha todos os campos corretamente."),
                        data, "warned", form)

\* f"{Client}|{Product}|{Date.strftime('%Y-%m-%d %H:%M:%S')}"
UniqueKey(row) ==
    << row.client, row.product, row.date \div TicksPerSecond >>

NoKey == << >>

RECURSIVE Unique(_)
\* Series.unique(): the values in order of first appearance.
Unique(keys) ==
    IF keys = << >> THEN << >>
    ELSE LET init == Unique(SubSeq(keys, 1, Len(keys) - 1))
             k == keys[Len(keys)]
         IN  IF \E i \in 1 .. Len(init) : init[i] = k THEN init ELSE Append(init, k)

UniqueKeys(orders_data) ==
    Unique([i \in 1 .. Len(orders_data) |-> UniqueKey(orders_data[i])])

\* df_orders[df_orders["unique_key"] == selected_key]
MatchingRows(orders_data, selected_key) ==
    SelectSeq(orders_data, LAMBDA row : UniqueKey(row) = selected_key)

\* No check of the number of matching rows: matching_rows.iloc[0] is taken.
Ambiguous_FirstMatch(matching_rows) ==
    FALSE

\* if len(matching_rows) > 1
Ambiguous(matching_rows) ==
    Len(matching_rows) > 1

EditStatusList ==
    << "em aberto", "Received - Debited", "Received - Credit",
       "Received - Pix", "Received - Cash" >>

\* The edit form for the one selected row: Update and Delete each issue one
\* statement through run_query and refresh on success.
EditSelected(w, data, row, btn, newStatus, up, fault) ==
    LET edit_product == Selectbox(ProductList(data), row.product)
        edit_status == Selectbox(EditStatusList, newStatus)
        stmt == IF btn = "update"
                THEN Stmt("update_order", << edit_product, row.quantity, edit_status,
                                             row.client, row.product, row.date >>)
                ELSE Stmt("delete_order", << row.client, row.product, row.date >>)
        r == RunQuery(w, stmt, TRUE, up, fault)
    IN  IF btn = "none" THEN PageResult(w, data, "editing", << >>)
        ELSE IF r.kind = "raise" THEN PageResult(r.w, data, "raised_stmt", << >>)
        ELSE IF Truthy(r)
        THEN LET f == RefreshData(r.w, up, fault)
             IN  PageResult(f.w, f.data, "done", << >>)
        ELSE PageResult(r.w, data, "failed", << >>)

\* orders_page without the check of st.session_state.get("username"): the
\* edit/delete section is rendered for every session.
OrdersEdit_NoAdminGate(w, data, username, keyIn, btn, newStatus, up, fault) ==
    LET clientes == RunQuery(w, Stmt("clientes_query", << >>), FALSE, up, fault)
        orders_data == DictGet(data, "orders")
        selected_key == Selectbox(<< NoKey >> \o UniqueKeys(orders_data), keyIn)
        matching_rows == MatchingRows(orders_data, selected_key)
    IN  IF clientes.kind = "raise" THEN PageResult(clientes.w, data, "raised_form", << >>)
        ELSE IF orders_data = << >> \/ selected_key = NoKey
        THEN PageResult(clientes.w, data, "shown", << >>)
        ELSE IF Ambiguous(matching_rows)
        THEN PageResult(Show(clientes.w, "Multiple orders found with the same key."),
                        data, "refused", << >>)
        ELSE EditSelected(clientes.w, data, matching_rows[1], btn, newStatus, up, fault)

\* The run of orders_page in which the order form is not submitted: the
\* table of the cached orders and, for "admin", the edit/delete section
\* with the key keyIn chosen and the button btn pressed.
OrdersEdit(w, data, username, keyIn, btn, newStatus, up, fault) ==
    LET clientes == RunQuery(w, Stmt("clientes_query", << >>), FALSE, up, fault)
        orders_data == DictGet(data, "orders")
        selected_key == Selectbox(<< NoKey >> \o UniqueKeys(orders_data), keyIn)
        matching_rows == MatchingRows(orders_data, selected_key)
    IN  IF clientes.kind = "raise" THEN PageResult(clientes.w, data, "raised_form", << >>)
        ELSE IF orders_data = << >> \/ username # "admin" \/ selected_key = NoKey
        THEN PageResult(clientes.w, data, "shown", << >>)
        ELSE IF Ambiguous(matching_rows)
        THEN PageResult(Show(clientes.w, "Multiple orders found with the same key."),
                        data, "refused", << >>)
        ELSE EditSelected(clientes.w, data, matching_rows[1], btn, newStatus, up, fault)

(***************************************************************************)
(* home_page.  The rows of public.vw_stock_vs_orders_summary, a view over  *)
(* tables of stock movements, are what the database holds when the page    *)
(* asks: an input of the run, [product, total_in_stock] per row.           *)
(***************************************************************************)
RECURSIVE InsertByTotalDesc(_, _)
InsertByTotalDesc(row, sorted) ==
    IF sorted = << >> THEN << row >>
    ELSE IF Head(sorted).total_in_stock >= row.total_in_stock
         THEN << Head(sorted) >> \o InsertByTotalDesc(row, Tail(sorted))
         ELSE << row >> \o sorted

RECURSIVE SortByTotalDesc(_)
\* df.sort_values("Total_in_Stock", ascending=False)
SortByTotalDesc(rows) ==
    IF rows = << >> THEN << >>
    ELSE InsertByTotalDesc(rows[Len(rows)],
                           SortByTotalDesc(SubSeq(rows, 1, Len(rows) - 1)))

RECURSIVE SumTotal(_)
\* int(df["Total_in_Stock"].sum())
SumTotal(rows) ==
    IF rows = << >> THEN 0 ELSE Head(rows).total_in_stock + SumTotal(Tail(rows))

\* The "Stock vs. Orders Summary" section: the try block of lines 375-405.
\* A rendered table leaves << df_display, total_stock_value >>.
StockVsOrders(w, data, view, up, fault) ==
    LET r == RunQuery(w, Stmt("stock_vs_orders_query", << >>), FALSE, up, fault)
        stock_vs_orders_data == IF r.kind = "rows" THEN view ELSE << >>
        df_display == SortByTotalDesc(stock_vs_orders_data)
    IN  IF r.kind = "raise"
        THEN PageResult(Show(r.w, "Erro ao gerar o resumo Stock vs. Orders"),
                        data, "rendered", << >>)
        ELSE IF stock_vs_orders_data # << >>
        THEN PageResult(Show(r.w, "**Total Geral (Stock vs. Orders):**"),
                        data, "rendered", << df_display, SumTotal(df_display) >>)
        ELSE PageResult(Show(r.w, "Nao ha dados na view vw_stock_vs_orders_summary."),
                        data, "rendered", << >>)

\* The administrator's part of the page: the open orders summary, then the
\* stock summary.
AdminReports(w, data, view, up, fault) ==
    LET o == RunQuery(Show(w, "**Open Orders Summary**"),
                      Stmt("open_orders_query", << OpenStatus >>), FALSE, up, fault)
        shown == IF Truthy(o) THEN Show(o.w, "**Total Geral (Open Orders):**")
                 ELSE Show(o.w, "Nenhum pedido em aberto encontrado.")
    IN  IF o.kind = "raise" THEN PageResult(o.w, data, "raised_open", << >>)
        ELSE StockVsOrders(Show(shown, "**Stock vs. Orders Summary**"),
                           data, view, up, fault)

\* home_page(): the notification, and for "admin" the two reports.
HomePage(w, data, username, view, up, fault) ==
    LET c == RunQuery(w, Stmt("client_count_query", << OpenStatus >>), FALSE, up, fault)
        notified == IF Truthy(c) /\ c.rows[1] > 0
                    THEN Show(c.w, "Ha clientes com pedidos em aberto!")
                    ELSE Show(c.w, "Nenhum cliente com pedido em aberto no momento.")
    IN  IF c.kind = "raise" THEN PageResult(c.w, data, "raised_count", << >>)
        ELSE IF username = "admin" THEN AdminReports(notified, data, view, up, fault)
        ELSE PageResult(notified, data, "rendered", << >>)

(***************************************************************************)
(* loyalty_program_page.                                                   *)
(***************************************************************************)
\* The page without the check of the balance: "Resgatar Premio" always
\* subtracts 100.
LoyaltyProgramPage_NoBalanceCheck(w, points, points_earned, add, redeem) ==
    LET start == IF points.set THEN points.val ELSE 0
        added == IF add THEN start + points_earned ELSE start
        w1 == IF add THEN Show(w, "Pontos adicionados com sucesso!") ELSE w
    IN  IF redeem
        THEN [w |-> Show(w1, "Premio resgatado com sucesso!"),
              points |-> [set |-> TRUE, val |-> added - 100]]
        ELSE [w |-> w1, points |-> [set |-> TRUE, val |-> added]]

\* loyalty_program_page(): 'points' is set to 0 when the session has none;
\* "Adicionar Pontos" adds points_earned; "Resgatar Premio" takes 100 off a
\* balance of at least 100 and reports an error otherwise.
LoyaltyProgramPage(w, points, points_earned, add, redeem) ==
    LET start == IF points.set THEN points.val ELSE 0
        added == IF add THEN start + points_earned ELSE start
        w1 == IF add THEN Show(w, "Pontos adicionados com sucesso!") ELSE w
    IN  IF redeem
        THEN IF added >= 100
             THEN [w |-> Show(w1, "Premio resgatado com sucesso!"),
                   points |-> [set |-> TRUE, val |-> added - 100]]
             ELSE [w |-> Show(w1, "Pontos insuficientes para resgate."),
                   points |-> [set |-> TRUE, val |-> added]]
        ELSE [w |-> w1, points |-> [set |-> TRUE, val |-> added]]

(***************************************************************************)
(* The state machine.                                                      *)
(***************************************************************************)
\* st.session_state of a browser session before its first run: no 'data', no
\* 'username', no 'points'.
NoPoints == [set |-> FALSE, val |-> 0]
NoSession ==
    [open |-> FALSE, data |-> EmptyDict, username |-> NoUser, points |-> NoPoints]

\* The record of a step: the operation, the session, how far it got, the
\* fault injected, the widget state the browser sent, the values the form
\* returned, the messages shown, the run_query calls.
Step(op, s, stage, fault, args, form, w) ==
    [op |-> op, s |-> s, stage |-> stage, fault |-> fault, args |-> args,
     form |-> form, msgs |-> w.msgs, calls |-> w.calls]

EnvStep ==
    [op |-> "env", s |-> 0, stage |-> "", fault |-> "ok", args |-> << >>,
     form |-> << >>, msgs |-> {}, calls |-> << >>]

Init ==
    /\ dbUp = TRUE
    /\ tb_pedido = << >>
    /\ connCache = "unset"
    /\ dataCache = NoMemo
    /\ session = [s \in Sessions |-> NoSession]
    /\ last = EnvStep

\* The world as a run finds it.
Now == World(connCache, tb_pedido, dataCache)

\* A fault is injected only into a statement that runs on an open connection.
FaultTakesEffect(w, fault) ==
    fault = "ok" \/ \E i \in 1 .. Len(w.calls) : w.calls[i].conn = "open"

\* The timestamp is read only by a run that issues the INSERT.
ClockRead(w, t) ==
    t = 0 \/ \E i \in 1 .. Len(w.calls) : w.calls[i].sql = "insert_order"

\* The run's effects on the process and the database.
Effects(w, fault) ==
    /\ FaultTakesEffect(w, fault)
    /\ Len(w.tb) <= MaxOrders
    /\ tb_pedido' = w.tb
    /\ connCache' = w.conn
    /\ dataCache' = w.memo
    /\ UNCHANGED dbUp

\* The database server goes down or comes back.
DbOutage ==
    /\ dbUp' = ~dbUp
    /\ last' = EnvStep
    /\ UNCHANGED << tb_pedido, connCache, dataCache, session >>

\* Another client of the database registers an order.
ExternalInsert(t) ==
    /\ Len(tb_pedido) < MaxOrders
    /\ tb_pedido' = InsertOrder(<< "Ana", "Water", 2, t >>, tb_pedido)
    /\ last' = EnvStep
    /\ UNCHANGED << dbUp, connCache, dataCache, session >>

\* The first run of a session: st.session_state.data = load_all_data()
\* unless the session holds 'data'.
OpenSession(s, fault) ==
    /\ ~session[s].open
    /\ LET r == LoadAllData(Now, dbUp, fault)
       IN  /\ Effects(r.w, fault)
           /\ session' = [session EXCEPT ![s].open = TRUE, ![s].data = r.data]
           /\ last' = Step("open", s, "loaded", fault, << >>, << >>, r.w)

\* The login form stores the user's name.
Login(s, u) ==
    /\ session[s].open
    /\ session[s].username = NoUser
    /\ session' = [session EXCEPT ![s].username = u]
    /\ last' = Step("login", s, "", "ok", << >>, << >>, Now)
    /\ UNCHANGED << dbUp, tb_pedido, connCache, dataCache >>

\* settings_page, "Salvar Nome de Usuario".
SaveUsername(s, u) ==
    /\ session[s].open
    /\ session[s].username # NoUser
    /\ session[s].username # u
    /\ session' = [session EXCEPT ![s].username = u]
    /\ last' = Step("settings", s, "", "ok", << >>, << >>, Now)
    /\ UNCHANGED << dbUp, tb_pedido, connCache, dataCache >>

\* orders_page, "Register Order".
SubmitOrder(s, cIn, pIn, qIn, t, fault) ==
    /\ session[s].open
    /\ LET r == OrdersSubmit(Now, session[s].data, cIn, pIn, qIn, t, dbUp, fault)
       IN  /\ ClockRead(r.w, t)
           /\ Effects(r.w, fault)
           /\ session' = [session EXCEPT ![s].data = r.data]
           /\ last' = Step("create", s, r.stage, fault, << cIn, pIn, qIn >>, r.form, r.w)

\* orders_page, the table and the edit/delete section, with key keyIn
\* chosen in the selectbox.
EditOrderWith(s, keyIn, btn, newStatus, fault) ==
    /\ session[s].open
    /\ keyIn = NoKey => btn = "none"
    /\ btn # "update" => newStatus = OpenStatus
    /\ LET r == OrdersEdit(Now, session[s].data, session[s].username,
                           keyIn, btn, newStatus, dbUp, fault)
       IN  /\ Effects(r.w, fault)
           /\ session' = [session EXCEPT ![s].data = r.data]
           /\ last' = Step(btn, s, r.stage, fault, << keyIn, newStatus >>, << >>, r.w)

\* The keys the selectbox of a session offers, and no choice.
KeyInputs(s) ==
    LET keys == UniqueKeys(DictGet(session[s].data, "orders"))
    IN  {NoKey} \cup {keys[i] : i \in 1 .. Len(keys)}

StatusInputs == {"em aberto", "Received - Cash"}

\* orders_page, the table and the edit/delete section.
EditOrder(s, btn, newStatus, fault) ==
    \E keyIn \in KeyInputs(s) : EditOrderWith(s, keyIn, btn, newStatus, fault)

Next ==
    \/ DbOutage
    \/ \E t \in Ticks : ExternalInsert(t)
    \/ \E s \in Sessions, fault \in Faults : OpenSession(s, fault)
    \/ \E s \in Sessions, u \in Usernames : Login(s, u)
    \/ \E s \in Sessions, u \in Usernames : SaveUsername(s, u)
    \/ \E s \in Sessions, cIn \in ClientInputs, pIn \in ProductInputs,
          qIn \in Quantities, t \in Ticks, fault \in Faults :
            SubmitOrder(s, cIn, pIn, qIn, t, fault)
    \/ \E s \in Sessions, btn \in {"none", "update", "delete"},
          newStatus \in StatusInputs, fault \in Faults :
            EditOrder(s, btn, newStatus, fault)

\* The application: browser sessions, the database server and the other
\* clients of the database.
Spec == Init /\ [][Next]_vars

(***************************************************************************)
(* The layer's functions called one by one, as a caller of run_query,      *)
(* load_all_data and refresh_data may, and Streamlit's "Clear cache"       *)
(* command, which empties the st.cache_resource and st.cache_data entries. *)
(***************************************************************************)
ClearCaches ==
    /\ connCache # "unset" \/ dataCache.set
    /\ connCache' = "unset"
    /\ dataCache' = NoMemo
    /\ last' = EnvStep
    /\ UNCHANGED << dbUp, tb_pedido, session >>

\* run_query(query) or run_query(query, values, commit=True)
CallRunQuery(stmt, commit, fault) ==
    /\ LET r == RunQuery(Now, stmt, commit, dbUp, fault)
       IN  /\ Effects(r.w, fault)
           /\ last' = Step("run_query", 0, r.kind, fault, << >>, << >>, r.w)
    /\ UNCHANGED session

\* st.session_state.data = load_all_data() in session s
CallLoadAllData(s, fault) ==
    /\ LET r == LoadAllData(Now, dbUp, fault)
       IN  /\ Effects(r.w, fault)
           /\ session' = [session EXCEPT ![s].open = TRUE, ![s].data = r.data]
           /\ last' = Step("load", s, "loaded", fault, << >>, << >>, r.w)

\* refresh_data() in session s
CallRefreshData(s, fault) ==
    /\ LET r == RefreshData(Now, dbUp, fault)
       IN  /\ Effects(r.w, fault)
           /\ session' = [session EXCEPT ![s].open = TRUE, ![s].data = r.data]
           /\ last' = Step("refresh", s, "loaded", fault, << >>, << >>, r.w)

\* The session the unit-level runs use.
UnitSessions == {1}

UnitNext ==
    \/ DbOutage
    \/ \E t \in Ticks : ExternalInsert(t)
    \/ \E s \in UnitSessions, fault \in Faults : OpenSession(s, fault)
    \/ \E s \in UnitSessions : Login(s, "admin")
    \/ \E s \in UnitSessions, cIn \in ClientInputs, pIn \in ProductInputs,
          qIn \in Quantities, t \in Ticks, fault \in Faults :
            SubmitOrder(s, cIn, pIn, qIn, t, fault)
    \/ \E s \in UnitSessions, btn \in {"none", "update", "delete"},
          newStatus \in StatusInputs, fault \in Faults :
            EditOrder(s, btn, newStatus, fault)
    \/ ClearCaches
    \/ \E fault \in Faults : CallRunQuery(Stmt("orders_query", << >>), FALSE, fault)
    \/ \E t \in Ticks, fault \in Faults :
          CallRunQuery(Stmt("insert_order", << "Ana", "Water", 2, t >>), TRUE, fault)
    \/ \E s \in UnitSessions, fault \in Faults : CallLoadAllData(s, fault)
    \/ \E s \in UnitSessions, fault \in Faults : CallRefreshData(s, fault)

\* The layer under unit-level use by one session.
UnitSpec == Init /\ [][UnitNext]_vars


(***************************************************************************)
(* The layer started on a database that already holds an order, open or    *)
(* paid.                                                                   *)
(***************************************************************************)
SeededOrder(status) ==
    [client |-> "Ana", product |-> "Water", quantity |-> 2, date |-> 0,
     status |-> status]

SeededInit ==
    /\ dbUp = TRUE
    /\ tb_pedido \in {<< SeededOrder(status) >> : status \in StatusInputs}
    /\ connCache = "unset"
    /\ dataCache = NoMemo
    /\ session = [s \in Sessions |-> NoSession]
    /\ last = EnvStep

SeededSpec == SeededInit /\ [][UnitNext]_vars

(***************************************************************************)
(* One session visiting the home page, the settings page and the edit      *)
(* section of the orders page.                                             *)
(***************************************************************************)
\* Rows the stock view may hold.
VwStockVsOrders ==
    {<< >>,
     << [product |-> "Water", total_in_stock |-> 1] >>,
     << [product |-> "Water", total_in_stock |-> 1],
        [product |-> "Juice", total_in_stock |-> 3] >>}

\* home_page in session s while the stock view holds `view`.
VisitHome(s, view, fault) ==
    /\ session[s].open
    /\ LET r == HomePage(Now, session[s].data, session[s].username, view, dbUp, fault)
       IN  /\ Effects(r.w, fault)
           /\ last' = Step("home", s, r.stage, fault, << view >>, r.form, r.w)
    /\ UNCHANGED session

PagesNext ==
    \/ DbOutage
    \/ \E t \in Ticks : ExternalInsert(t)
    \/ \E s \in UnitSessions, fault \in Faults : OpenSession(s, fault)
    \/ \E s \in UnitSessions, u \in Usernames : Login(s, u)
    \/ \E s \in UnitSessions, u \in Usernames : SaveUsername(s, u)
    \/ \E s \in UnitSessions, btn \in {"none", "update", "delete"},
          newStatus \in StatusInputs, fault \in Faults :
            EditOrder(s, btn, newStatus, fault)
    \/ \E s \in UnitSessions, view \in VwStockVsOrders, fault \in Faults :
            VisitHome(s, view, fault)
    \/ ClearCaches

PagesSpec == Init /\ [][PagesNext]_vars

(***************************************************************************)
(* One session on the loyalty page.                                        *)
(***************************************************************************)
\* The buttons a run of the page can find pressed: a click reruns the page
\* with that one button set.
LoyaltyButtons == {<< FALSE, FALSE >>, << TRUE, FALSE >>, << FALSE, TRUE >>}

\* loyalty_program_page in session s.
VisitLoyalty(s, points_earned, btns) ==
    /\ session[s].open
    /\ LET r == LoyaltyProgramPage(Now, session[s].points, points_earned,
                                   btns[1], btns[2])
       IN  /\ r.points.val <= MaxPoints
           /\ session' = [session EXCEPT ![s].points = r.points]
           /\ last' = Step("loyalty", s, "rendered", "ok",
                           << points_earned, btns[1], btns[2] >>, << >>, r.w)
    /\ UNCHANGED << dbUp, tb_pedido, connCache, dataCache >>

LoyaltyNext ==
    \/ \E s \in UnitSessions, fault \in Faults : OpenSession(s, fault)
    \/ \E s \in UnitSessions, u \in Usernames : Login(s, u)
    \/ \E s \in UnitSessions, points_earned \in PointsEarned, btns \in LoyaltyButtons :
          VisitLoyalty(s, points_earned, btns)

LoyaltySpec == Init /\ [][LoyaltyNext]_vars

(***************************************************************************)
(* Properties.                                                             *)
(***************************************************************************)
\* The run_query calls of the latest step that obtained a connection.
ConnCalls == {i \in 1 .. Len(last.calls) : last.calls[i].conn # "none"}

\* C8: every run_query call opens a connection for that call and closes
\* it; no call runs on a connection an earlier call has used or closed.
C8_ConnectionPerCall ==
    \A i \in ConnCalls : last.calls[i].fresh /\ last.calls[i].closed

\* C9: whenever run_query obtains a connection, the connection is closed
\* when run_query returns or raises, whatever the exit path: rows read,
\* statement committed, statement failed and rolled back, or an exception
\* raised inside the error handler.
C9_ClosedOnEveryExit ==
    /\ \A i \in ConnCalls : last.calls[i].closed
    /\ ConnCalls # {} => connCache = "closed"

\* C9's case: a call whose statement failed on an open connection and whose
\* error handler raised in turn has left the connection closed.
C9_Witness ==
    \E i \in ConnCalls :
        /\ last.calls[i].conn = "open"
        /\ last.calls[i].outcome = "raise"
        /\ last.calls[i].closed
        /\ connCache = "closed"

\* The latest step was a load that ran its queries.
LoadRan ==
    last.op \in {"open", "load", "refresh"} /\ last.calls # << >>

\* C10: when one of the four read queries of a load fails, the snapshot of
\* that load still holds all four datasets, the failed one empty and every
\* one whose query succeeded with the rows fetched.
C10_FailedDatasetEmpty ==
    (LoadRan /\ \E i \in 1 .. Len(last.calls) : last.calls[i].outcome # "rows")
    => LET data == session[last.s].data
       IN  \A i \in 1 .. Len(LoadKeys) :
              /\ LoadKeys[i] \in data.present
              /\ data.rows[LoadKeys[i]] =
                    IF i <= Len(last.calls) /\ last.calls[i].outcome = "rows"
                    THEN SelectRows(Stmt(LoadQueries[i], << >>), tb_pedido)
                    ELSE << >>


\* The orders dataset of a session's snapshot.
OrdersOf(ss) == DictGet(ss.data, "orders")

\* `seq` without its i-th element.
RemoveAt(seq, i) ==
    SubSeq(seq, 1, i - 1) \o SubSeq(seq, i + 1, Len(seq))

\* The calls of a step that issued statement `sql`.
CallsOf(step, sql) ==
    {i \in 1 .. Len(step.calls) : step.calls[i].sql = sql}

C2_FailedCreateKeepsSnapshot ==
    [][ (/\ last'.op = "create"
         /\ \E i \in CallsOf(last', "insert_order") : last'.calls[i].outcome # "true")
        => /\ dataCache' = dataCache
           /\ session' = session
           /\ tb_pedido' = tb_pedido
           /\ \A q \in {LoadQueries[j] : j \in 1 .. Len(LoadQueries)} : CallsOf(last', q) = {}
           /\ "Order registrado com sucesso!" \notin last'.msgs
           /\ \/ last'.stage = "failed" /\ "Falha ao registrar o pedido." \in last'.msgs
              \/ last'.stage = "raised_stmt" ]_vars

\* C2's case: a create issued its INSERT and the INSERT did not succeed.
C2_Witness ==
    /\ last.op = "create"
    /\ \E i \in CallsOf(last, "insert_order") : last.calls[i].outcome # "true"
    /\ session[last.s].data.present # {}

\* C3: a submission whose form values fail validation (no client, no
\* product, or a quantity of 0 or less) issues no INSERT (the only call of
\* the run is the client list query that fills the form), leaves the orders
\* table, the st.cache_data entry and the session snapshot unchanged, and
\* is answered with the warning.
C3_InvalidOrderRejected ==
    [][ (/\ last'.op = "create"
         /\ last'.form # << >>
         /\ (last'.form[1] = "" \/ last'.form[2] = "" \/ last'.form[3] <= 0))
        => /\ CallsOf(last', "insert_order") = {}
           /\ Len(last'.calls) = 1
           /\ tb_pedido' = tb_pedido
           /\ dataCache' = dataCache
           /\ session' = session
           /\ last'.stage = "warned"
           /\ "Por favor, preencha todos os campos corretamente." \in last'.msgs ]_vars

\* C3's case: the client list was fetched, the form was submitted with no
\* client chosen, a product and a quantity of at least 1, and was rejected.
C3_Witness ==
    /\ last.op = "create"
    /\ last.stage = "warned"
    /\ last.form # << >>
    /\ last.form[1] = "" /\ last.form[2] # "" /\ last.form[3] >= 1
    /\ last.calls[1].outcome = "rows"

\* The rows of a session's cached orders that share key `key`.
SameKey(ss, key) ==
    {i \in 1 .. Len(OrdersOf(ss)) : UniqueKey(OrdersOf(ss)[i]) = key}

\* C4: when two or more rows of the cached orders share the key chosen for
\* an edit or a delete, no UPDATE or DELETE is issued, the orders table, the
\* st.cache_data entry and the session snapshot stay as they are, and a run
\* that reaches the edit section answers with the warning.
C4_AmbiguousKeyRefused ==
    [][ (/\ last'.op \in {"update", "delete"}
         /\ Cardinality(SameKey(session[last'.s], last'.args[1])) >= 2)
        => /\ CallsOf(last', "update_order") = {}
           /\ CallsOf(last', "delete_order") = {}
           /\ tb_pedido' = tb_pedido
           /\ dataCache' = dataCache
           /\ session' = session
           /\ last'.stage \in {"refused", "raised_form", "shown"}
           /\ (session[last'.s].username = "admin" /\ last'.stage # "raised_form")
                => (last'.stage = "refused"
                    /\ "Multiple orders found with the same key." \in last'.msgs) ]_vars

\* C4's case: the admin pressed Update or Delete with a key that two cached
\* rows share, and was refused.
C4_Witness ==
    /\ last.op \in {"update", "delete"}
    /\ last.stage = "refused"
    /\ Cardinality(SameKey(session[last.s], last.args[1])) >= 2

\* The order of the end-to-end scenario.
AnaWater(t, status) ==
    [client |-> "Ana", product |-> "Water", quantity |-> 2, date |-> t,
     status |-> status]

\* C5: with the database reachable and no statement fault, (1) creating
\* (Ana, Water, 2) on an empty orders table leaves the snapshot with exactly
\* that order, open; (2) the admin's update of that one order to
\* 'Received - Cash' leaves the snapshot with the one order in that status;
\* (3) the admin's delete of the one order leaves the snapshot's orders
\* empty.
C5_OrderLifecycle ==
    [][ (dbUp /\ last'.fault = "ok" /\ last'.op \in {"create", "update", "delete"})
        => LET ss == session[last'.s]
               new == OrdersOf(session'[last'.s])
           IN  /\ (/\ last'.op = "create"
                   /\ last'.args = << "Ana", "Water", 2 >>
                   /\ tb_pedido = << >>)
                  => \E t \in Ticks : new = << AnaWater(t, OpenStatus) >>
               /\ \A t \in Ticks :
                    (/\ last'.op = "update"
                     /\ ss.username = "admin"
                     /\ tb_pedido = << AnaWater(t, OpenStatus) >>
                     /\ OrdersOf(ss) = tb_pedido
                     /\ last'.args = << UniqueKey(AnaWater(t, OpenStatus)), "Received - Cash" >>)
                    => new = << AnaWater(t, "Received - Cash") >>
               /\ \A t \in Ticks, st \in StatusInputs :
                    (/\ last'.op = "delete"
                     /\ ss.username = "admin"
                     /\ tb_pedido = << AnaWater(t, st) >>
                     /\ OrdersOf(ss) = tb_pedido
                     /\ last'.args[1] = UniqueKey(AnaWater(t, st)))
                    => new = << >> ]_vars

\* C6: two refresh_data() calls in a row by one session, with nothing in
\* between and the database reachable and faultless in both, leave the same
\* snapshot.
C6_RefreshIdempotent ==
    [][ (/\ last.op = "refresh" /\ last'.op = "refresh" /\ last'.s = last.s
         /\ dbUp /\ last.fault = "ok" /\ last'.fault = "ok")
        => session'[last.s].data = session[last.s].data ]_vars

\* C7: once load_all_data has stored a snapshot, a later load_all_data()
\* issues no query and returns the stored snapshot, and leaves it stored,
\* whatever the orders table holds by then.
C7_LoadMemoized ==
    [][ (last'.op \in {"open", "load"} /\ dataCache.set)
        => /\ last'.calls = << >>
           /\ session'[last'.s].data = dataCache.val
           /\ dataCache' = dataCache
           /\ connCache' = connCache ]_vars

\* C7's case: a load returned the stored snapshot, which holds the orders
\* of its time while the table has gained a row since.
C7_Witness ==
    /\ last.op = "load"
    /\ last.calls = << >>
    /\ dataCache.set
    /\ session[last.s].data = dataCache.val
    /\ Len(OrdersOf(session[last.s])) >= 1
    /\ Len(tb_pedido) > Len(OrdersOf(session[last.s]))

\* A step that ended in a connection, statement or validation failure.
EndedInFailure(step) ==
    /\ step.op \in {"open", "load", "refresh", "run_query", "create", "update", "delete"}
    /\ \/ step.stage \in {"raised_form", "raised_stmt", "failed", "warned", "raise", "none"}
       \/ \E i \in 1 .. Len(step.calls) : step.calls[i].outcome \in {"none", "raise"}

\* A step all of whose statements ran and that raised nothing.
CompletedOk(step) ==
    /\ step.stage \notin {"raised_form", "raised_stmt", "failed", "warned", "raise", "none"}
    /\ \A i \in 1 .. Len(step.calls) : step.calls[i].outcome \in {"rows", "true"}

\* C11: after a step that ended in a failure, a read query, a load or a
\* valid create made while the database is reachable and no fault occurs
\* completes successfully.
C11_NoFailureIsFatal ==
    [][ (/\ EndedInFailure(last)
         /\ dbUp /\ last'.fault = "ok"
         /\ \/ last'.op \in {"run_query", "load"}
            \/ /\ last'.op = "create"
               /\ last'.args[1] # "" /\ last'.args[2] # "" /\ last'.args[3] >= 1)
        => CompletedOk(last') ]_vars

\* The four paid states.
PaidStatuses ==
    {EditStatusList[i] : i \in 1 .. Len(EditStatusList)} \ {OpenStatus}

ErrorMessages ==
    {"Nao foi possivel conectar ao banco de dados.", "Erro ao executar a consulta",
     "Erro ao carregar os dados", "Erro ao gerar o resumo Stock vs. Orders",
     "Falha ao registrar o pedido."}

\* C13: when the administrator's home page is rendered while the stock
\* view holds zero rows, the database being reachable and no fault
\* occurring, the page is rendered to its end with an empty display dataset
\* and a total of 0, and no error is raised or shown.
C13_EmptyViewTotalZero ==
    [][ (/\ last'.op = "home"
         /\ session[last'.s].username = "admin"
         /\ last'.args = << << >> >>
         /\ dbUp /\ last'.fault = "ok")
        => /\ last'.stage = "rendered"
           /\ last'.form = << << >>, 0 >>
           /\ last'.msgs \cap ErrorMessages = {} ]_vars

AdminReportTexts ==
    {"**Open Orders Summary**", "**Stock vs. Orders Summary**",
     "**Total Geral (Open Orders):**", "Nenhum pedido em aberto encontrado.",
     "**Total Geral (Stock vs. Orders):**",
     "Nao ha dados na view vw_stock_vs_orders_summary.",
     "Erro ao gerar o resumo Stock vs. Orders"}

AdminReportQueries == {"open_orders_query", "stock_vs_orders_query"}

\* C15: a run of the home page shows or queries an admin report, and a run
\* of the orders page renders the edit/delete section or issues an UPDATE
\* or a DELETE, only when the username of the session is "admin" in that
\* run.
C15_AdminOnly ==
    [][ /\ (/\ last'.op = "home"
            /\ \/ last'.msgs \cap AdminReportTexts # {}
               \/ \E q \in AdminReportQueries : CallsOf(last', q) # {})
           => session[last'.s].username = "admin"
        /\ (/\ last'.op \in {"none", "update", "delete"}
            /\ \/ last'.stage \in {"editing", "refused", "raised_stmt", "done", "failed"}
               \/ CallsOf(last', "update_order") # {}
               \/ CallsOf(last', "delete_order") # {})
           => session[last'.s].username = "admin" ]_vars

\* C15's case: a session that is not "admin" holds orders, asked for an
\* update or a delete of one of them, and the page was rendered without the
\* edit section and without a statement.
C15_Witness ==
    /\ last.op \in {"update", "delete"}
    /\ session[last.s].username \in Usernames \ {"admin"}
    /\ last.stage = "shown"
    /\ SameKey(session[last.s], last.args[1]) # {}
    /\ last.calls[1].outcome = "rows"
    /\ CallsOf(last, "update_order") \cup CallsOf(last, "delete_order") = {}

\* C16: the points balance of a session is never negative and is 0 until
\* the session has one; a run of the loyalty page with "add" pressed raises
\* it by the amount entered, which is not negative; with "redeem" pressed it
\* takes exactly 100 off a balance of at least 100, and leaves a smaller
\* balance as it is and reports insufficient points; with no button pressed
\* it leaves the balance as it is.
C16_PointsNeverNegative ==
    /\ [](\A s \in Sessions :
            session[s].points.val >= 0 /\ (~session[s].points.set => session[s].points.val = 0))
    /\ [][ last'.op = "loyalty"
           => LET before == session[last'.s].points.val
                  after == session'[last'.s].points.val
                  points_earned == last'.args[1]
                  add == last'.args[2]
                  redeem == last'.args[3]
              IN  /\ points_earned >= 0
                  /\ add => after = before + points_earned
                  /\ (redeem /\ before >= 100)
                       => (after = before - 100
                           /\ "Pontos insuficientes para resgate." \notin last'.msgs)
                  /\ (redeem /\ before < 100)
                       => (after = before
                           /\ last'.msgs = {"Pontos insuficientes para resgate."})
                  /\ (~add /\ ~redeem) => after = before ]_vars

\* C16's case: "redeem" was pressed on a balance above 0 and below 100, which
\* was kept and answered with the error.
C16_Witness ==
    /\ last.op = "loyalty"
    /\ last.args[3]
    /\ session[last.s].points.val > 0
    /\ session[last.s].points.val < 100
    /\ "Pontos insuficientes para resgate." \in last.msgs

====
